---- MODULE Spec2Model ----
(***************************************************************************)
(* Model of the my-supabase-app client: the formatted-address normalizer   *)
(* and its caller (app/page.tsx), the reverse-geocode route handler        *)
(* (app/api/reverse-geocode/route.ts), the AuthProvider / AuthGuard pair   *)
(* and the structured-fields formatter described by the specification.     *)
(*                                                                         *)
(* Strings are sequences of characters.  A character is written as an      *)
(* ASCII name:                                                             *)
(*   Ni, Hon   U+65E5 U+672C, the two characters of the country name       *)
(*   IdComma   U+3001, the ideographic comma                               *)
(*   Comma     ","                                                         *)
(*   Sp        " " (U+0020)                                                *)
(*   Tab       any white space other than U+0020 (tab, U+3000, newline)    *)
(*   Yubin     U+3012, the postal mark                                     *)
(*   D         an ASCII digit                                              *)
(*   Hy        "-" (U+002D)                                                *)
(*   X, B      any other character                                         *)
(***************************************************************************)
EXTENDS Integers, Sequences, FiniteSets, TLC

VARIABLES
    \* normalizeGoogleFormattedAddress under test
    formatted, nsegs, result, again, npc,
    \* Home: location state (page.tsx 43-47) and the request in flight
    locating, locationError, address, lat, lng, lpc, raw, resOk,
    \* AuthProvider / AuthGuard
    user, loading, pathname, rendered, lastReplace, pendingReplace, replaceCalls,
    \* reverse-geocode route handler
    reqLat, reqLon, envKey, rpc, response, upstreamCalled, upstreamBody,
    \* structured-fields formatter
    fields, structured, spc

normVars   == <<formatted, nsegs, result, again, npc>>
locVars    == <<locating, locationError, address, lat, lng, lpc, raw, resOk>>
guardVars  == <<user, loading, pathname, rendered, lastReplace, pendingReplace, replaceCalls>>
routeVars  == <<reqLat, reqLon, envKey, rpc, response, upstreamCalled, upstreamBody>>
fieldVars  == <<fields, structured, spc>>
vars == <<normVars, locVars, guardVars, routeVars, fieldVars>>

----------------------------------------------------------------------------
\* Characters

Ni == "Ni"
Hon == "Hon"
IdComma == "IdComma"
Comma == "Comma"
Sp == "Sp"
Tab == "Tab"
Yubin == "Yubin"
D == "D"
Hy == "Hy"
X == "X"
B == "B"

\* \s of a JavaScript regular expression, and the set String.prototype.trim removes
WhiteSpace == {Sp, Tab}
\* the class [U+3001 , \s] of the country pattern
CountrySeparators == {IdComma, Comma} \cup WhiteSpace
\* \d under the u flag: ASCII digits only
Digits == {D}

Null == "null"

----------------------------------------------------------------------------
\* Regular-expression helpers

\* length of the longest run of characters of class cls starting at s[i]
RECURSIVE RunLen(_, _, _)
RunLen(s, i, cls) ==
    IF i <= Len(s) /\ s[i] \in cls THEN 1 + RunLen(s, i + 1, cls) ELSE 0

DropFirst(s, n) == SubSeq(s, n + 1, Len(s))

\* length matched at the start of s by  ^ Ni Hon [IdComma , \s]*   (0: no match)
CountryMatchLen(s) ==
    IF Len(s) >= 2 /\ s[1] = Ni /\ s[2] = Hon
    THEN 2 + RunLen(s, 3, CountrySeparators)
    ELSE 0

\* length matched at the start of s by  ^ Yubin? \d{3} - \d{4} \s*   (0: no match)
PostalMatchLen(s) ==
    LET o == IF Len(s) >= 1 /\ s[1] = Yubin THEN 1 ELSE 0
    IN  IF /\ Len(s) >= o + 8
           /\ \A k \in 1..3 : s[o + k] \in Digits
           /\ s[o + 4] = Hy
           /\ \A k \in 5..8 : s[o + k] \in Digits
        THEN o + 8 + RunLen(s, o + 9, WhiteSpace)
        ELSE 0

\* s.replace(/^Ni Hon[IdComma,\s]*/u, '')
StripCountry(s) == DropFirst(s, CountryMatchLen(s))

\* mutant: the pattern without its trailing \s*
StripPostalKeepSpace(s) ==
    DropFirst(s, IF PostalMatchLen(s) = 0 THEN 0
                 ELSE (IF s[1] = Yubin THEN 9 ELSE 8))

\* s.replace(/^Yubin?\d{3}-\d{4}\s*/u, '')
StripPostal(s) == DropFirst(s, PostalMatchLen(s))

\* s.replace(/,\s*/g, ' ')
RECURSIVE CollapseFrom(_, _)
CollapseFrom(s, i) ==
    IF i > Len(s) THEN <<>>
    ELSE IF s[i] = Comma
         THEN <<Sp>> \o CollapseFrom(s, i + 1 + RunLen(s, i + 1, WhiteSpace))
         ELSE <<s[i]>> \o CollapseFrom(s, i + 1)

CollapseCommas(s) == CollapseFrom(s, 1)

\* position of the first U+0020 of s, 0 when there is none
FirstSpace(s) ==
    IF \E i \in 1..Len(s) : s[i] = Sp
    THEN CHOOSE i \in 1..Len(s) : s[i] = Sp /\ \A j \in 1..(i - 1) : s[j] # Sp
    ELSE 0

\* mutant: empty segments are dropped, so the array may be empty
RECURSIVE SplitSpaceDropEmpty(_)
SplitSpaceDropEmpty(s) ==
    LET k == FirstSpace(s)
        head == IF k = 0 THEN s ELSE SubSeq(s, 1, k - 1)
        tail == IF k = 0 THEN <<>> ELSE SplitSpaceDropEmpty(DropFirst(s, k))
    IN  IF head = <<>> THEN tail ELSE <<head>> \o tail

\* s.split(' '): the array of the segments between spaces (never empty)
RECURSIVE SplitSpace(_)
SplitSpace(s) ==
    LET k == FirstSpace(s)
    IN  IF k = 0 THEN <<s>>
        ELSE <<SubSeq(s, 1, k - 1)>> \o SplitSpace(DropFirst(s, k))

\* mutant: trimStart in place of trim
TrimStart(s) == DropFirst(s, RunLen(s, 1, WhiteSpace))

\* s.trim()
Trim(s) ==
    LET lead  == RunLen(s, 1, WhiteSpace)
        rest  == DropFirst(s, lead)
        keep  == IF \E i \in 1..Len(rest) : rest[i] \notin WhiteSpace
                 THEN CHOOSE i \in 1..Len(rest) :
                        /\ rest[i] \notin WhiteSpace
                        /\ \A j \in (i + 1)..Len(rest) : rest[j] \in WhiteSpace
                 ELSE 0
    IN  SubSeq(rest, 1, keep)

\* a value returned, or a TypeError thrown
Returned(v) == [threw |-> FALSE, value |-> v]
Thrown == [threw |-> TRUE, value |-> <<>>]

\* array[0] followed by .trim(): reading .trim of undefined throws
TrimFirst(parts) == IF Len(parts) = 0 THEN Thrown ELSE Returned(Trim(parts[1]))

\* mutant: the truncation at the first space runs before the comma collapse
normalizeSplitBeforeCollapse(f) ==
    IF f = <<>> THEN Returned(<<>>)
    ELSE Returned(Trim(CollapseCommas(SplitSpace(StripPostal(StripCountry(f)))[1])))

\* page.tsx 193-211
normalizeGoogleFormattedAddress(f) ==
    IF f = <<>> THEN Returned(<<>>)
    ELSE TrimFirst(SplitSpace(CollapseCommas(StripPostal(StripCountry(f)))))

----------------------------------------------------------------------------
\* Inputs of the normalizer: strings assembled from address tokens

MaxSegments == 4

PostalDigits == <<D, D, D, Hy, D, D, D, D>>

Segments ==
    { <<Ni, Hon>>, <<Ni, Hon, IdComma>>,
      <<Yubin>> \o PostalDigits \o <<Sp>>, PostalDigits,
      <<IdComma>>, <<Comma>>, <<Sp>>, <<Tab>>, <<X>>, <<D>>,
      <<Sp, B>> }

\* the formatted address under construction grows by one token
AppendSegment(seg) ==
    /\ npc = "input"
    /\ nsegs < MaxSegments
    /\ formatted' = formatted \o seg
    /\ nsegs' = nsegs + 1
    /\ UNCHANGED <<result, again, npc>>
    /\ UNCHANGED <<locVars, guardVars, routeVars, fieldVars>>

\* normalizeGoogleFormattedAddress(formatted)
Normalize ==
    /\ npc = "input"
    /\ result' = normalizeGoogleFormattedAddress(formatted)
    /\ npc' = "done"
    /\ UNCHANGED <<formatted, nsegs, again>>
    /\ UNCHANGED <<locVars, guardVars, routeVars, fieldVars>>

\* the output fed back as a new formatted-string input
Renormalize ==
    /\ npc = "done"
    /\ ~result.threw
    /\ again' = normalizeGoogleFormattedAddress(result.value)
    /\ npc' = "redone"
    /\ UNCHANGED <<formatted, nsegs, result>>
    /\ UNCHANGED <<locVars, guardVars, routeVars, fieldVars>>

NextNormalize ==
    \/ \E seg \in Segments : AppendSegment(seg)
    \/ Normalize
    \/ Renormalize

----------------------------------------------------------------------------
\* Home: handleGetCurrentLocation (page.tsx 243-331)

None == [some |-> FALSE, val |-> <<>>]
Some(v) == [some |-> TRUE, val |-> v]

\* user-facing messages (the Japanese texts of page.tsx, named)
MsgUnsupported == "MsgUnsupported"
MsgPermissionDenied == "MsgPermissionDenied"
MsgPositionUnavailable == "MsgPositionUnavailable"
MsgTimeout == "MsgTimeout"
MsgGeoOther == "MsgGeoOther"
MsgServerError == "MsgServerError"
MsgZeroResults == "MsgZeroResults"
MsgOverQueryLimit == "MsgOverQueryLimit"
MsgRequestDenied == "MsgRequestDenied"
MsgInvalidRequest == "MsgInvalidRequest"
MsgGeocodeOther == "MsgGeocodeOther"
MsgFetchFailed == "MsgFetchFailed"
MsgJsonParse == "MsgJsonParse"
\* the fallback text of setAddress, as a one-token string
MsgAddressUnavailable == <<"MsgAddressUnavailable">>

Coordinates == {"32.78", "35.68"}

\* GeolocationPositionError codes
PERMISSION_DENIED == 1
POSITION_UNAVAILABLE == 2
TIMEOUT == 3
GeoErrorCodes == {0, PERMISSION_DENIED, POSITION_UNAVAILABLE, TIMEOUT}

GeocodeStatuses ==
    {"OK", "ZERO_RESULTS", "OVER_QUERY_LIMIT", "REQUEST_DENIED", "INVALID_REQUEST",
     "UNKNOWN_ERROR"}

\* page.tsx 217-230
geocodeStatusMessage(status) ==
    CASE status = "ZERO_RESULTS" -> MsgZeroResults
      [] status = "OVER_QUERY_LIMIT" -> MsgOverQueryLimit
      [] status = "REQUEST_DENIED" -> MsgRequestDenied
      [] status = "INVALID_REQUEST" -> MsgInvalidRequest
      [] OTHER -> MsgGeocodeOther

\* page.tsx 300-323: the message of the geolocation error callback
geoErrorMessage(code) ==
    CASE code = PERMISSION_DENIED -> MsgPermissionDenied
      [] code = POSITION_UNAVAILABLE -> MsgPositionUnavailable
      [] code = TIMEOUT -> MsgTimeout
      [] OTHER -> MsgGeoOther

MaxRawSegments == 3

\* the parts of a formatted_address of the geocoder: country, postal code,
\* address text, building name
RawSegments ==
    { <<Ni, Hon, IdComma>>, <<Yubin>> \o PostalDigits \o <<Sp>>, <<X>>, <<Sp, B>> }

\* every concatenation of exactly k parts
RECURSIVE Concats(_)
Concats(k) ==
    IF k = 0 THEN {<<>>}
    ELSE {p \o s : p \in Concats(k - 1), s \in RawSegments}

\* formatted_address values the geocoder may return
RawAddresses == UNION {Concats(k) : k \in 0..MaxRawSegments}

\* JSON bodies /api/reverse-geocode may answer with
GeocodeBody(status, hasResult, fa) ==
    [error |-> Null, status |-> status, hasResult |-> hasResult, formatted_address |-> fa]
ErrorBody(msg) ==
    [error |-> msg, status |-> Null, hasResult |-> FALSE, formatted_address |-> <<>>]

\* what the Geocoding API answers
GoogleBodies ==
    {GeocodeBody(st, FALSE, <<>>) : st \in GeocodeStatuses}
    \cup {GeocodeBody("OK", TRUE, fa) : fa \in RawAddresses}

Bodies ==
    {ErrorBody(m) : m \in {"lat/lon required", "Missing GOOGLE_MAPS_API_KEY"}}
    \cup GoogleBodies

\* page.tsx 243-254: the click handler of the location button (disabled while locating)
handleGetCurrentLocation(supported) ==
    /\ ~locating
    /\ lpc = "idle"
    /\ IF ~supported
       THEN /\ locationError' = MsgUnsupported
            /\ UNCHANGED <<locating, address, lat, lng, lpc, raw, resOk>>
       ELSE /\ locating' = TRUE
            /\ locationError' = Null
            /\ address' = None
            /\ lat' = Null
            /\ lng' = Null
            /\ lpc' = "geolocating"
            \* res and raw are locals of the callback: none yet
            /\ raw' = <<>>
            /\ resOk' = FALSE
    /\ UNCHANGED <<normVars, guardVars, routeVars, fieldVars>>

\* page.tsx 257-269: the success callback up to the awaited fetch
GeolocationSuccess(latitude, longitude) ==
    /\ lpc = "geolocating"
    /\ lat' = latitude
    /\ lng' = longitude
    /\ lpc' = "fetching"
    /\ UNCHANGED <<locating, locationError, address, raw, resOk>>
    /\ UNCHANGED <<normVars, guardVars, routeVars, fieldVars>>

\* page.tsx 300-323: the error callback
GeolocationError(code) ==
    /\ lpc = "geolocating"
    /\ locationError' = geoErrorMessage(code)
    /\ locating' = FALSE
    /\ lpc' = "idle"
    /\ UNCHANGED <<address, lat, lng, raw, resOk>>
    /\ UNCHANGED <<normVars, guardVars, routeVars, fieldVars>>

\* mutant: the catch block without the finally block
CatchWithoutFinally(message) ==
    /\ locationError' = message
    /\ lpc' = "idle"
    /\ UNCHANGED locating

\* page.tsx 293-298: catch, then finally
CatchFinally(message) ==
    /\ locationError' = message
    /\ locating' = FALSE
    /\ lpc' = "idle"

\* the awaited fetch rejects
FetchRejects ==
    /\ lpc = "fetching"
    /\ CatchFinally(MsgFetchFailed)
    /\ UNCHANGED <<address, lat, lng, raw, resOk>>
    /\ UNCHANGED <<normVars, guardVars, routeVars, fieldVars>>

\* the awaited fetch resolves; res.json() is awaited next
FetchResolves(ok) ==
    /\ lpc = "fetching"
    /\ resOk' = ok
    /\ lpc' = "parsing"
    /\ UNCHANGED <<locating, locationError, address, lat, lng, raw>>
    /\ UNCHANGED <<normVars, guardVars, routeVars, fieldVars>>

\* res.json() rejects: the body is not JSON
JsonRejects ==
    /\ lpc = "parsing"
    /\ CatchFinally(MsgJsonParse)
    /\ UNCHANGED <<address, lat, lng, raw, resOk>>
    /\ UNCHANGED <<normVars, guardVars, routeVars, fieldVars>>

\* page.tsx 287
displayedAddress(normalized, r) ==
    IF normalized # <<>> THEN normalized
    ELSE IF r # <<>> THEN r
    ELSE MsgAddressUnavailable

\* page.tsx 270-298: res.json() resolves with data
JsonResolves(data) ==
    /\ lpc = "parsing"
    /\ IF ~resOk
       THEN /\ CatchFinally(IF data.error # Null THEN data.error ELSE MsgServerError)
            /\ UNCHANGED <<address, raw>>
       ELSE IF data.status # "OK"
       THEN /\ CatchFinally(geocodeStatusMessage(data.status))
            /\ UNCHANGED <<address, raw>>
       ELSE LET r == IF data.hasResult THEN data.formatted_address ELSE <<>>
                n == normalizeGoogleFormattedAddress(r)
            IN  IF n.threw
                THEN /\ CatchFinally("TypeError")
                     /\ UNCHANGED <<address, raw>>
                ELSE /\ raw' = r
                     /\ address' = Some(displayedAddress(n.value, r))
                     /\ locating' = FALSE
                     /\ lpc' = "idle"
                     /\ UNCHANGED locationError
    /\ UNCHANGED <<lat, lng, resOk>>
    /\ UNCHANGED <<normVars, guardVars, routeVars, fieldVars>>

GeolocationCallback ==
    \/ \E la \in Coordinates, lo \in Coordinates : GeolocationSuccess(la, lo)
    \/ \E code \in GeoErrorCodes : GeolocationError(code)

FetchSettles ==
    \/ FetchRejects
    \/ \E ok \in BOOLEAN : FetchResolves(ok)

JsonSettles ==
    \/ JsonRejects
    \/ \E data \in Bodies : JsonResolves(data)

NextLocation ==
    \/ \E supported \in BOOLEAN : handleGetCurrentLocation(supported)
    \/ GeolocationCallback
    \/ FetchSettles
    \/ JsonSettles

----------------------------------------------------------------------------
\* AuthProvider (contexts/AuthContext) and AuthGuard

Users == {"u1", "u2"}
Paths == {"/", "/auth", "/todos"}
MaxReplaceCalls == 4

\* mutant: the component without its loading check
AuthGuardRenderNoLoading(u, l, p) ==
    IF u = Null /\ p # "/auth" THEN "null"
    ELSE IF u # Null /\ p = "/auth" THEN "null"
    ELSE "children"

\* AuthGuard 26-45: what the component returns
AuthGuardRender(u, l, p) ==
    IF l THEN "null"
    ELSE IF u = Null /\ p # "/auth" THEN "null"
    ELSE IF u # Null /\ p = "/auth" THEN "null"
    ELSE "children"

\* AuthGuard 12-24: the router.replace call of the effect ("none": no call)
AuthGuardEffect(u, l, p) ==
    IF l THEN "none"
    ELSE IF u = Null /\ p # "/auth" THEN "/auth"
    ELSE IF u # Null /\ p = "/auth" THEN "/"
    ELSE "none"

\* a state change of user, loading or pathname: AuthGuard renders again and,
\* its dependencies having changed, its effect runs; a router.replace call of
\* the effect starts a navigation (pend: the navigation in flight otherwise)
Commit(u, l, p, pend) ==
    /\ Len(replaceCalls) < MaxReplaceCalls
    /\ <<u, l, p>> # <<user, loading, pathname>>
    /\ user' = u
    /\ loading' = l
    /\ pathname' = p
    /\ rendered' = AuthGuardRender(u, l, p)
    /\ lastReplace' = AuthGuardEffect(u, l, p)
    /\ IF AuthGuardEffect(u, l, p) = "none"
       THEN /\ pendingReplace' = pend
            /\ UNCHANGED replaceCalls
       ELSE /\ pendingReplace' = AuthGuardEffect(u, l, p)
            /\ replaceCalls' = Append(replaceCalls, AuthGuardEffect(u, l, p))

\* AuthProvider 58-62: getSession resolves; setUser and setLoading(false)
SessionResolved(sessionUser) ==
    /\ loading
    /\ Commit(sessionUser, FALSE, pathname, pendingReplace)
    /\ UNCHANGED <<normVars, locVars, routeVars, fieldVars>>

\* AuthProvider 65-67: the onAuthStateChange listener
AuthStateChange(sessionUser) ==
    /\ Commit(sessionUser, loading, pathname, pendingReplace)
    /\ UNCHANGED <<normVars, locVars, routeVars, fieldVars>>

\* the navigation asked for by router.replace takes place
ReplaceCompletes ==
    /\ pendingReplace # "none"
    /\ Commit(user, loading, pendingReplace, "none")
    /\ UNCHANGED <<normVars, locVars, routeVars, fieldVars>>

\* the user follows a link or enters a URL
UserNavigates(p) ==
    /\ Commit(user, loading, p, pendingReplace)
    /\ UNCHANGED <<normVars, locVars, routeVars, fieldVars>>

NextAuthGuard ==
    \/ \E u \in Users \cup {Null} : SessionResolved(u)
    \/ \E u \in Users \cup {Null} : AuthStateChange(u)
    \/ ReplaceCompletes
    \/ \E p \in Paths : UserNavigates(p)

----------------------------------------------------------------------------
\* app/api/reverse-geocode/route.ts: GET

\* searchParams.get: null when absent, else the string (possibly empty)
ParamValues == {Null, "", "32.78", "35.68"}
\* process.env.GOOGLE_MAPS_API_KEY: undefined (Null), empty or set
KeyValues == {Null, "", "key"}
UpstreamHttp == {200, 403}

Falsy(v) == v = Null \/ v = ""

NoResponse == [status |-> 0, body |-> ErrorBody(Null)]

\* mutant: the key is checked before lat and lon
routeChecksKeyFirst(la, lo, key) ==
    IF Falsy(key) THEN 500
    ELSE IF Falsy(la) \/ Falsy(lo) THEN 400
    ELSE 0

\* route.ts 8-15: the status of the early error response, 0 when there is none
routeChecks(la, lo, key) ==
    IF Falsy(la) \/ Falsy(lo) THEN 400
    ELSE IF Falsy(key) THEN 500
    ELSE 0

\* route.ts 3-26: the handler up to the awaited upstream fetch
GET(la, lo, key) ==
    /\ rpc # "upstream"
    /\ reqLat' = la
    /\ reqLon' = lo
    /\ envKey' = key
    /\ upstreamBody' = ErrorBody(Null)
    /\ CASE routeChecks(la, lo, key) = 400 ->
              /\ response' = [status |-> 400, body |-> ErrorBody("lat/lon required")]
              /\ upstreamCalled' = FALSE
              /\ rpc' = "done"
         [] routeChecks(la, lo, key) = 500 ->
              /\ response' = [status |-> 500, body |-> ErrorBody("Missing GOOGLE_MAPS_API_KEY")]
              /\ upstreamCalled' = FALSE
              /\ rpc' = "done"
         [] OTHER ->
              /\ response' = NoResponse
              /\ upstreamCalled' = TRUE
              /\ rpc' = "upstream"
    /\ UNCHANGED <<normVars, locVars, guardVars, fieldVars>>

\* route.ts 26-29: the upstream answers with a JSON body
UpstreamResponds(http, data) ==
    /\ rpc = "upstream"
    /\ upstreamBody' = data
    /\ response' = [status |-> 200, body |-> data]
    /\ rpc' = "done"
    /\ UNCHANGED <<reqLat, reqLon, envKey, upstreamCalled>>
    /\ UNCHANGED <<normVars, locVars, guardVars, fieldVars>>

\* route.ts 26-27: fetch or r.json() rejects; the handler's promise rejects
UpstreamFails ==
    /\ rpc = "upstream"
    /\ rpc' = "threw"
    /\ UNCHANGED <<reqLat, reqLon, envKey, response, upstreamCalled, upstreamBody>>
    /\ UNCHANGED <<normVars, locVars, guardVars, fieldVars>>

NextRoute ==
    \/ \E la \in ParamValues, lo \in ParamValues, key \in KeyValues : GET(la, lo, key)
    \/ \E http \in UpstreamHttp, data \in GoogleBodies : UpstreamResponds(http, data)
    \/ UpstreamFails

----------------------------------------------------------------------------
\* The structured-fields strategy (specification section 4.1)

FieldNames ==
    {"state", "province", "region",
     "city", "city_district", "town", "village", "county",
     "suburb", "neighbourhood", "hamlet", "quarter",
     "block", "road", "house_number", "postcode"}

MaxFields == 5

\* the value a field holds when present
FieldValue(name) ==
    CASE name = "state" -> "Nagasaki"
      [] name = "city" -> "Nagasaki-shi"
      [] name = "road" -> "Yagami-cho"
      [] name = "house_number" -> "50-2"
      [] name = "postcode" -> "851-0133"
      [] OTHER -> name

NoFields == [n \in FieldNames |-> ""]

\* resolution order per logical slot
RegionFields == <<"state", "province", "region">>
LocalityFields == <<"city", "city_district", "town", "village", "county">>
SublocalityFields == <<"suburb", "neighbourhood", "hamlet", "quarter">>

\* first non-empty wins
RECURSIVE FirstNonEmpty(_, _, _)
FirstNonEmpty(fs, names, i) ==
    IF i > Len(names) THEN <<>>
    ELSE IF fs[names[i]] # "" THEN <<fs[names[i]]>>
    ELSE FirstNonEmpty(fs, names, i + 1)

Present(fs, name) == IF fs[name] # "" THEN <<fs[name]>> ELSE <<>>

\* the logical slots, in output order; a slot is a string of tokens, empty when unset
Slots(fs) ==
    << FirstNonEmpty(fs, RegionFields, 1),
       FirstNonEmpty(fs, LocalityFields, 1),
       FirstNonEmpty(fs, SublocalityFields, 1),
       Present(fs, "block"),
       Present(fs, "road") \o Present(fs, "house_number") >>

\* mutant: the slots joined without dropping the empty ones
RECURSIVE JoinAll(_, _)
JoinAll(slots, i) ==
    IF i > Len(slots) THEN <<>>
    ELSE IF i = Len(slots) THEN slots[i]
    ELSE slots[i] \o <<Sp>> \o JoinAll(slots, i + 1)

\* parts.filter(Boolean).join(' ')
RECURSIVE JoinNonEmpty(_, _)
JoinNonEmpty(slots, i) ==
    IF i > Len(slots) THEN <<>>
    ELSE LET rest == JoinNonEmpty(slots, i + 1)
         IN  IF slots[i] = <<>> THEN rest
             ELSE IF rest = <<>> THEN slots[i]
             ELSE slots[i] \o <<Sp>> \o rest

formatFromStructuredFields(fs) ==
    LET main == JoinNonEmpty(Slots(fs), 1)
    IN  IF fs["postcode"] # "" THEN <<Yubin, fs["postcode"], Sp>> \o main ELSE main

NonEmptyCount(fs) == Cardinality({n \in FieldNames : fs[n] # ""})

\* the geocoder reports one more address component
SetField(name) ==
    /\ spc = "input"
    /\ fields[name] = ""
    /\ NonEmptyCount(fields) < MaxFields
    /\ fields' = [fields EXCEPT ![name] = FieldValue(name)]
    /\ UNCHANGED <<structured, spc>>
    /\ UNCHANGED <<normVars, locVars, guardVars, routeVars>>

FormatStructured ==
    /\ spc = "input"
    /\ structured' = formatFromStructuredFields(fields)
    /\ spc' = "done"
    /\ UNCHANGED fields
    /\ UNCHANGED <<normVars, locVars, guardVars, routeVars>>

NextStructured ==
    \/ \E name \in FieldNames : SetField(name)
    \/ FormatStructured

----------------------------------------------------------------------------
\* Specifications

Init ==
    /\ formatted = <<>>
    /\ nsegs = 0
    /\ result = Returned(<<>>)
    /\ again = Returned(<<>>)
    /\ npc = "input"
    /\ locating = FALSE
    /\ locationError = Null
    /\ address = None
    /\ lat = Null
    /\ lng = Null
    /\ lpc = "idle"
    /\ raw = <<>>
    /\ resOk = FALSE
    /\ user = Null
    /\ loading = TRUE
    /\ pathname = "/"
    /\ rendered = "null"
    /\ lastReplace = "none"
    /\ pendingReplace = "none"
    /\ replaceCalls = <<>>
    /\ reqLat = Null
    /\ reqLon = Null
    /\ envKey = Null
    /\ rpc = "idle"
    /\ response = NoResponse
    /\ upstreamCalled = FALSE
    /\ upstreamBody = ErrorBody(Null)
    /\ fields = NoFields
    /\ structured = <<>>
    /\ spc = "input"

Next ==
    \/ NextNormalize
    \/ NextLocation
    \/ NextAuthGuard
    \/ NextRoute
    \/ NextStructured

Spec == Init /\ [][Next]_vars

SpecNormalize == Init /\ [][NextNormalize]_vars

\* geolocation invokes one of its callbacks, and the fetch and res.json() settle
SpecLocation ==
    /\ Init
    /\ [][NextLocation]_vars
    /\ WF_vars(GeolocationCallback)
    /\ WF_vars(FetchSettles)
    /\ WF_vars(JsonSettles)

SpecAuthGuard == Init /\ [][NextAuthGuard]_vars

SpecRoute == Init /\ [][NextRoute]_vars

SpecStructured == Init /\ [][NextStructured]_vars

----------------------------------------------------------------------------
\* Properties of normalizeGoogleFormattedAddress (checked under SpecNormalize)

Normalized == npc \in {"done", "redone"}

Contains(s, c) == \E i \in 1..Len(s) : s[i] = c

\* the shape of a formatted address: country token, postal-code token, main
\* address, building name
IsCountryToken(c) ==
    /\ Len(c) >= 2
    /\ c[1] = Ni
    /\ c[2] = Hon
    /\ \A i \in 3..Len(c) : c[i] \in CountrySeparators

IsPostalToken(p) ==
    \E o \in {0, 1} :
        /\ Len(p) >= o + 8
        /\ o = 1 => p[1] = Yubin
        /\ \A i \in {1, 2, 3, 5, 6, 7, 8} : p[o + i] = D
        /\ p[o + 4] = Hy
        /\ \A i \in (o + 9)..Len(p) : p[i] \in WhiteSpace

IsBuilding(b) == b = <<>> \/ b[1] = Sp

\* MAIN as the claim has it: non-empty, no space (of any kind), no comma
IsMain(m) == m # <<>> /\ \A i \in 1..Len(m) : m[i] \notin WhiteSpace \cup {Comma}

\* MAIN that is not itself taken for a leading token
IsPlainMain(m) ==
    /\ IsMain(m)
    /\ m[1] # IdComma
    /\ ~(Len(m) >= 2 /\ m[1] = Ni /\ m[2] = Hon)
    /\ \A k \in 1..Len(m) : ~IsPostalToken(SubSeq(m, 1, k))

\* s = C \o P \o MAIN \o BUILDING for a country token C or none, a postal-code
\* token P or none, a building name or none, and a MAIN that satisfies IsM:
\* the set of such MAINs
Mains(s, IsM(_)) ==
    LET afterCountry == {i \in 0..Len(s) : i = 0 \/ IsCountryToken(SubSeq(s, 1, i))}
        afterPostal(i) == {j \in i..Len(s) : j = i \/ IsPostalToken(SubSeq(s, i + 1, j))}
        mainEnds(j) == {k \in (j + 1)..Len(s) :
                           /\ IsBuilding(SubSeq(s, k + 1, Len(s)))
                           /\ IsM(SubSeq(s, j + 1, k))}
    IN  UNION {UNION {{SubSeq(s, j + 1, k) : k \in mainEnds(j)} : j \in afterPostal(i)} :
               i \in afterCountry}

\* C1 as stated: for every input of the shape [country] [postal code] MAIN
\* [" " building], MAIN non-empty without space or comma, the result is MAIN.
C1_ReturnsMain ==
    npc = "done" => \A m \in Mains(formatted, IsMain) : result = Returned(m)

\* C1 amended: the same, for a MAIN that holds no white space or comma and
\* does not itself begin with the country name, an ideographic comma or a
\* postal code.
C1_ReturnsPlainMain ==
    npc = "done" => \A m \in Mains(formatted, IsPlainMain) : result = Returned(m)

\* country, postal code with mark, main address and building name all present
C1_Witness ==
    /\ npc = "done"
    /\ formatted = <<Ni, Hon, IdComma, Yubin>> \o PostalDigits \o <<Sp, X, Sp, B>>
    /\ result = Returned(<<X>>)

\* C2 as stated: normalizing the output again changes nothing, for every input.
C2_Idempotent == npc = "redone" => again = result

\* C2 amended: normalizing the output again changes nothing whenever the
\* output does not itself begin with the country name or a postal code.
C2_IdempotentOncePatternsGone ==
    (npc = "redone"
       /\ CountryMatchLen(result.value) = 0
       /\ PostalMatchLen(result.value) = 0)
    => again = result

C2_Witness ==
    /\ npc = "redone"
    /\ formatted = <<Ni, Hon, IdComma>> \o PostalDigits \o <<X, Sp, B>>
    /\ result = Returned(<<X>>)
    /\ again = result

BeforeFirstSpace(s) == IF FirstSpace(s) = 0 THEN s ELSE SubSeq(s, 1, FirstSpace(s) - 1)

\* C3 as stated: the result holds no space and no comma, and is exactly the
\* text before the first space left after the country strip, the postal-code
\* strip and the comma-to-space collapse.
C3_ExactlyBeforeFirstSpace ==
    Normalized =>
        /\ ~Contains(result.value, Sp)
        /\ ~Contains(result.value, Comma)
        /\ result.value = BeforeFirstSpace(CollapseCommas(StripPostal(StripCountry(formatted))))

\* C3 amended: the result holds no space and no comma, and is the text before
\* that first space with the white space at its two ends removed.
C3_TrimmedBeforeFirstSpace ==
    Normalized =>
        /\ ~Contains(result.value, Sp)
        /\ ~Contains(result.value, Comma)
        /\ LET t == BeforeFirstSpace(CollapseCommas(StripPostal(StripCountry(formatted))))
               lead == RunLen(t, 1, WhiteSpace)
           IN  \E n \in 0..Len(t) :
                  /\ result.value = SubSeq(t, lead + 1, n)
                  /\ \A i \in (n + 1)..Len(t) : t[i] \in WhiteSpace
                  /\ result.value # <<>> => result.value[Len(result.value)] \notin WhiteSpace

\* a comma-separated trailing segment and a building name are both dropped
C3_Witness ==
    /\ npc = "done"
    /\ formatted = <<X, Comma, X, Sp, B>>
    /\ result = Returned(<<X>>)

Chars == {Ni, Hon, IdComma, Comma, Sp, Tab, Yubin, D, Hy, X, B}

\* C4: the normalizer never throws; it returns a string for every input, and
\* the empty string for the empty input.
C4_Total ==
    Normalized =>
        /\ ~result.threw
        /\ result.value \in Seq(Chars)
        /\ formatted = <<>> => result.value = <<>>

\* malformed input: separators only
C4_Witness ==
    /\ npc = "done"
    /\ formatted = <<Sp, Tab, Sp>>
    /\ result = Returned(<<>>)

----------------------------------------------------------------------------
\* Properties of handleGetCurrentLocation (checked under SpecLocation)

\* C5 as stated: after a successful geocoding response for which the normalizer
\* returns the empty string, the address shown is the "address unavailable"
\* text, never the raw formatted_address.
C5_EmptyResultShowsUnavailable ==
    (lpc = "idle" /\ address.some /\ normalizeGoogleFormattedAddress(raw).value = <<>>)
    => address.val = MsgAddressUnavailable

\* C9: every location request eventually sets locating back to false.
C9_LocatingEventuallyCleared == locating ~> ~locating

\* a request that ended in the catch block after res.json() rejected
C9_Witness ==
    /\ ~locating
    /\ lpc = "idle"
    /\ lat # Null
    /\ locationError = MsgJsonParse

----------------------------------------------------------------------------
\* Properties of AuthGuard (checked under SpecAuthGuard)

CorrectCombination ==
    \/ user # Null /\ pathname # "/auth"
    \/ user = Null /\ pathname = "/auth"

\* C7: children are rendered exactly when the session check has finished and
\* the (user, pathname) combination is correct; otherwise nothing is rendered,
\* with a redirect to /auth or / when not loading and none while loading.
C7_AuthGuardGating ==
    /\ rendered = "children" <=> (~loading /\ CorrectCombination)
    /\ rendered \in {"children", "null"}
    /\ loading => lastReplace = "none"
    /\ (~loading /\ user = Null /\ pathname # "/auth") => lastReplace = "/auth"
    /\ (~loading /\ user # Null /\ pathname = "/auth") => lastReplace = "/"
    /\ (~loading /\ CorrectCombination) => lastReplace = "none"
    /\ lastReplace # "none" =>
          /\ replaceCalls # <<>>
          /\ replaceCalls[Len(replaceCalls)] = lastReplace

\* signed in on /auth: nothing rendered, redirect to /
C7_Witness ==
    /\ ~loading
    /\ user # Null
    /\ pathname = "/auth"
    /\ rendered = "null"
    /\ lastReplace = "/"

----------------------------------------------------------------------------
\* Properties of the route handler (checked under SpecRoute)

\* a parameter or the key is missing: absent or empty
Missing(v) == v \in {Null, ""}

\* C8: the upstream is contacted only with lat, lon and the key all non-empty;
\* a missing lat or lon answers 400 (checked first), a missing key 500, and
\* otherwise the upstream body is answered with status 200.
C8_RouteResponses ==
    /\ upstreamCalled => (~Missing(reqLat) /\ ~Missing(reqLon) /\ ~Missing(envKey))
    /\ rpc = "done" =>
          /\ (Missing(reqLat) \/ Missing(reqLon)) =>
                (response.status = 400 /\ response.body.error # Null /\ ~upstreamCalled)
          /\ (~Missing(reqLat) /\ ~Missing(reqLon) /\ Missing(envKey)) =>
                (response.status = 500 /\ response.body.error # Null /\ ~upstreamCalled)
          /\ (~Missing(reqLat) /\ ~Missing(reqLon) /\ ~Missing(envKey)) =>
                (upstreamCalled /\ response.status = 200 /\ response.body = upstreamBody)

\* the upstream refused the request and the handler still answers 200
C8_Witness ==
    /\ rpc = "done"
    /\ upstreamCalled
    /\ response.status = 200
    /\ response.body.status = "REQUEST_DENIED"

----------------------------------------------------------------------------
\* Properties of the structured-fields strategy (checked under SpecStructured)

IndexOf(s, v) == IF Contains(s, v) THEN CHOOSE i \in 1..Len(s) : s[i] = v ELSE 0

\* only the first non-empty field of a slot appears
FirstOnly(out, names) ==
    \A i \in 1..Len(names) :
        Contains(out, FieldValue(names[i]))
        <=> (fields[names[i]] # "" /\ \A j \in 1..(i - 1) : fields[names[j]] = "")

ExampleFields ==
    [NoFields EXCEPT !["state"] = "Nagasaki", !["city"] = "Nagasaki-shi",
                     !["road"] = "Yagami-cho", !["house_number"] = "50-2"]

\* C6: the non-empty slots are joined in the order region, locality,
\* sublocality, block, road+house_number with exactly one space between slots,
\* only the first non-empty field of a slot is used, and a postal code is
\* prefixed with its mark and followed by a space.
C6_StructuredJoin ==
    spc = "done" =>
        LET hasPost == fields["postcode"] # ""
            main == IF hasPost THEN DropFirst(structured, 3) ELSE structured
            order == <<RegionFields, LocalityFields, SublocalityFields,
                       <<"block">>, <<"road">>, <<"house_number">>>>
            at(k) == IF \E i \in 1..Len(order[k]) : Contains(main, FieldValue(order[k][i]))
                     THEN IndexOf(main, FieldValue(order[k][
                              CHOOSE i \in 1..Len(order[k]) :
                                  Contains(main, FieldValue(order[k][i]))]))
                     ELSE 0
        IN  /\ hasPost => SubSeq(structured, 1, 3) = <<Yubin, FieldValue("postcode"), Sp>>
            /\ ~Contains(main, Yubin)
            /\ \A k \in 1..6 : FirstOnly(main, order[k])
            /\ \A k \in 1..6, l \in 1..6 : (k < l /\ at(k) > 0 /\ at(l) > 0) => at(k) < at(l)
            /\ main # <<>> => (main[1] # Sp /\ main[Len(main)] # Sp)
            /\ \A i \in 1..(Len(main) - 1) : ~(main[i] = Sp /\ main[i + 1] = Sp)
            /\ Cardinality({i \in 1..Len(main) : main[i] # Sp})
                  = Cardinality({i \in 1..Len(main) : main[i] = Sp}) + 1
                    + (IF at(5) > 0 /\ at(6) > 0 THEN 1 ELSE 0)
                    - (IF main = <<>> THEN 1 ELSE 0)
            /\ (at(5) > 0 /\ at(6) > 0) => at(6) = at(5) + 1
            /\ fields = ExampleFields =>
                  structured = <<"Nagasaki", Sp, "Nagasaki-shi", Sp, "Yagami-cho", "50-2">>
            /\ fields = NoFields => structured = <<>>

\* two fields of the locality slot and a postal code are present
C6_Witness ==
    /\ spc = "done"
    /\ fields["city"] # ""
    /\ fields["town"] # ""
    /\ fields["state"] # ""
    /\ fields["postcode"] # ""
    /\ structured = <<Yubin, "851-0133", Sp, "Nagasaki", Sp, "Nagasaki-shi">>

====
